---- MODULE Spec2Model ----
(***************************************************************************)
(* The DMA superpage engine of the ReadoutCard driver: the C-RORC channel  *)
(* (src/src/Crorc/CrorcDmaChannel.cxx) and the Dummy channel               *)
(* (src/src/ChannelPaths.cxx, DummyDmaChannel), driven by one client       *)
(* thread and, for the C-RORC, by the card writing the Ready-FIFO.         *)
(***************************************************************************)
EXTENDS Integers, Sequences, FiniteSets, TLC

(***************************************************************************)
(* Bounds of the model.  The ring depth is 2^RingLog; the source's ring    *)
(* has RingLog = 7 (128 entries).  The queue capacities are 16 and 32 in   *)
(* the source and are scaled down here so that a run can fill them.        *)
(***************************************************************************)
RingLog == 1
MaxPushes == 3
MaxStarts == 2
TRANSFER_QUEUE_SIZE == 2
READY_QUEUE_SIZE == 2
NProcs == 2
MaxOpsPushes == 1

(***************************************************************************)
(* Program constants.                                                      *)
(***************************************************************************)
MIN_SIZE == 1048576
DUMMY_GRANULE == 32768
OFFSET_ALIGNMENT == 4
DTSW == 130
READYFIFO_ENTRIES == 2 ^ RingLog
FIFO_QUEUE_MAX == READYFIFO_ENTRIES
\* The default DMA page size is the one that makes MIN_SIZE hold exactly one
\* ring of pages (8 KiB when the ring has 128 entries).
DefaultPageSize == MIN_SIZE \div READYFIFO_ENTRIES
PageSizes == {DefaultPageSize \div 2, DefaultPageSize, 2 * DefaultPageSize}
BufferSize == 2 * MIN_SIZE

\* Ready-FIFO status words, as signed 32-bit integers.
StatusNone == 0 - 1
StatusPart == 0
StatusWhole == DTSW
\* DTSW with bit 31 set: 0x80000082 read as a signed word.
StatusErrorBit == (DTSW - 2147483647) - 1
StatusUnknown == DTSW + 1
StatusValues == {StatusNone, StatusPart, StatusWhole, StatusErrorBit, StatusUnknown}

\* What the client may pass to push_superpage.
ClientOffsets == {0, 3, MIN_SIZE}
ClientSizes == {0, DUMMY_GRANULE \div 2, MIN_SIZE \div 2, MIN_SIZE, 2 * MIN_SIZE}
ClientSuperpages ==
  { [offset |-> o, size |-> s, received |-> r, ready |-> b] :
      o \in ClientOffsets, s \in ClientSizes, r \in {0}, b \in {FALSE} }
  \cup
  \* a superpage handed back as a previous pop_superpage returned it
  { [offset |-> 0, size |-> MIN_SIZE, received |-> MIN_SIZE, ready |-> TRUE] }

\* Every superpage value a call can return.
ClientResults ==
  [offset : ClientOffsets, size : ClientSizes,
   received : {0} \cup { n * (MIN_SIZE \div (2 * READYFIFO_ENTRIES)) : n \in 0 .. (8 * READYFIFO_ENTRIES) },
   ready : BOOLEAN]

VARIABLES
  variant,            \* "Crorc" or "Dummy": which channel class was constructed
  mPageSize,          \* CrorcDmaChannel::mPageSize
  mSuperpageQueue,    \* CrorcDmaChannel::mSuperpageQueue: pushing, arrivals, filled
  mFifoBack,          \* CrorcDmaChannel::mFifoBack
  mFifoSize,          \* CrorcDmaChannel::mFifoSize
  mPendingDmaStart,   \* CrorcDmaChannel::mPendingDmaStart
  readyFifo,          \* the Ready-FIFO shared with the card: slot -> status word
  cardActive,         \* the card has been armed: its data receiver was started
  chan,               \* "ok", "failed" (DataArrivalError) or "aborted" (assert)
  mTransferQueue,     \* DummyDmaChannel::mTransferQueue
  mReadyQueue,        \* DummyDmaChannel::mReadyQueue
  ret,                \* outcome of the last client call
  pushedHist,         \* offsets accepted by push_superpage since the last start_dma
  poppedHist,         \* offsets returned by pop_superpage since the last start_dma
  pagesPushed,        \* descriptors pushed since the last start_dma
  pagesReceived,      \* pages credited as received since the last start_dma
  pushCount,          \* accepted pushes of the run
  startCount,         \* start_dma calls of the run
  script,             \* the client calls so far, while they follow a scenario
  mLoopbackMode,      \* CrorcDmaChannel::mLoopbackMode
  mGeneratorEnabled,  \* CrorcDmaChannel::mGeneratorEnabled
  cardOps,            \* the Card Ops calls and sleeps of the last client call, in order
  lastCall,           \* the last client call, and whether it repeats the one before
  fileMutex,          \* the lock file: 0 when free, else the process that locked it
  namedMutex,         \* the named mutex: 0 when free, else the process that locked it
  lockPc,             \* per process: where it is in Interprocess::Lock
  lockResult,         \* per process: outcome of its last construction of a Lock
  rfid,               \* the RFID register of the card, bit by bit
  firmwareInfo,       \* outcome of the last getFirmwareInfo
  ringTarget,         \* per ring slot: the page address of the descriptor pushed
  sdhWrites           \* the page addresses whose SDH the engine patched, in order

vars == << variant, mPageSize, mSuperpageQueue, mFifoBack,
           mFifoSize, mPendingDmaStart, readyFifo, cardActive, chan,
           mTransferQueue, mReadyQueue, ret, pushedHist, poppedHist,
           pagesPushed, pagesReceived, pushCount, startCount, script,
           mLoopbackMode, mGeneratorEnabled, cardOps, lastCall,
           fileMutex, namedMutex, lockPc, lockResult,
           rfid, firmwareInfo, ringTarget, sdhWrites >>

\* The cold-start scenario's superpage and the two orders of its calls.
Superpage0 == [offset |-> 0, size |-> MIN_SIZE, received |-> 0, ready |-> FALSE]
Scenarios == { << "push0", "start", "fill", "pop" >>,
               << "start", "push0", "fill", "pop" >> }
OffScript == << "off" >>
Track(call) ==
  LET s == Append(script, call)
  IN IF \E full \in Scenarios : Len(s) <= Len(full) /\ SubSeq(full, 1, Len(s)) = s
     THEN s ELSE OffScript

Slots == 0 .. (READYFIFO_ENTRIES - 1)
Min(a, b) == IF a < b THEN a ELSE b
NoSuperpage == [offset |-> 0, size |-> 0, received |-> 0, ready |-> FALSE]
\* The outcome of a client call: a call that succeeds and returns nothing
\* leaves RetOk; a failed call leaves its name and error; pop_superpage and
\* get_superpage leave their name and the superpage returned.
RetOk == [op |-> "none", err |-> "none", sp |-> NoSuperpage]
Ret(op, err) == IF err = "none" THEN RetOk ELSE [op |-> op, err |-> err, sp |-> NoSuperpage]
RetSp(op, sp) == [op |-> op, err |-> "none", sp |-> sp]
isMultiple(x, y) == x % y = 0
ReadyFifoReset == [i \in Slots |-> StatusNone]
EmptyQueue == [pushing |-> << >>, arrivals |-> << >>, filled |-> << >>]

(***************************************************************************)
(* SuperpageQueue                                                          *)
(***************************************************************************)
getQueueAvailable(q) == TRANSFER_QUEUE_SIZE - (Len(q.pushing) + Len(q.arrivals))
addToQueue(q, entry) == [q EXCEPT !.pushing = Append(@, entry)]
removeFromPushingQueue(q) ==
  [q EXCEPT !.pushing = Tail(@), !.arrivals = Append(@, Head(q.pushing))]
moveFromArrivalsToFilledQueue(q) ==
  [q EXCEPT !.arrivals = Tail(@), !.filled = Append(@, Head(q.arrivals))]
removeFromFilledQueue(q) == [q EXCEPT !.filled = Tail(@)]
getUnpushedPages(entry) == entry.maxPages - entry.pushedPages
isPushed(entry) == entry.pushedPages = entry.maxPages
isFilled(superpage) == superpage.received = superpage.size

(***************************************************************************)
(* C-RORC engine.  The operators below work on a record st holding the     *)
(* fields one call reads and writes:                                       *)
(*   q, back, size, fifo      mSuperpageQueue, mFifoBack, mFifoSize, FIFO  *)
(*   pending                  mPendingDmaStart                             *)
(*   pushed, received         the page counters of the run                 *)
(*   pageSize                 mPageSize                                    *)
(*   target                   per slot, the page address pushed with it    *)
(*   sdh                      the page addresses whose SDH was patched     *)
(*   err                      "none", or the exception that ended the call *)
(***************************************************************************)
Engine ==
  [q |-> mSuperpageQueue, back |-> mFifoBack, size |-> mFifoSize,
   fifo |-> readyFifo, pending |-> mPendingDmaStart,
   pushed |-> pagesPushed, received |-> pagesReceived, err |-> "none",
   pageSize |-> mPageSize, target |-> ringTarget, sdh |-> sdhWrites]

getFifoFront(st) == (st.back + st.size) % READYFIFO_ENTRIES

\* pushIntoSuperpage(entry), entry being the front of Pushing.
\* getNextSuperpageBusAddress(entry), as an offset into the buffer.
getNextSuperpageBusAddress(st, entry) ==
  entry.superpage.offset + st.pageSize * entry.pushedPages

pushIntoSuperpage(st) ==
  [st EXCEPT !.target[getFifoFront(st)] = getNextSuperpageBusAddress(st, st.q.pushing[1]),
             !.size = @ + 1,
             !.q.pushing[1].pushedPages = @ + 1,
             !.pushed = @ + 1]

RECURSIVE pushPages(_, _)
pushPages(st, n) ==
  IF n <= 0 THEN st ELSE pushPages(pushIntoSuperpage(st), n - 1)

\* dataArrived without the test of the error bit.
dataArrivedIgnoresErrorBit(status) ==
  IF status = StatusNone THEN "NoneArrived"
  ELSE IF status = StatusPart THEN "PartArrived"
  ELSE IF status % 256 = DTSW THEN "WholeArrived"
  ELSE "Exception"

\* dataArrived(index) on the status word found in the slot.
dataArrived(status) ==
  IF status = StatusNone THEN "NoneArrived"
  ELSE IF status = StatusPart THEN "PartArrived"
  ELSE IF status % 256 = DTSW
       THEN IF status < 0 THEN "Exception" ELSE "WholeArrived"
  ELSE "Exception"

\* pushPhase counting one free descriptor more than the ring has.
pushPhaseOneTooMany(st) ==
  LET entry == st.q.pushing[1]
      freeDescriptors == (FIFO_QUEUE_MAX + 1) - st.size
      possibleToPush == Min(freeDescriptors, getUnpushedPages(entry))
      st1 == pushPages(st, possibleToPush)
  IN IF isPushed(st1.q.pushing[1])
     THEN [st1 EXCEPT !.q = removeFromPushingQueue(@)]
     ELSE st1

\* The push phase of fillSuperpages when no DMA start is pending.
pushPhase(st) ==
  LET entry == st.q.pushing[1]
      freeDescriptors == FIFO_QUEUE_MAX - st.size
      freePages == getUnpushedPages(entry)
      possibleToPush == Min(freeDescriptors, freePages)
      st1 == pushPages(st, possibleToPush)
  IN IF isPushed(st1.q.pushing[1])
     THEN [st1 EXCEPT !.q = removeFromPushingQueue(@)]
     ELSE st1

(***************************************************************************)
(* The arrival loop reads the front entry of Arrivals at every iteration.  *)
(* When Arrivals has run empty while descriptors are still outstanding the *)
(* accessor is used outside its contract; emptyFront chooses what the      *)
(* queue then does: "throw" (the call fails), "pushing" (it yields the     *)
(* entry at the region boundary, the front of Pushing) or "filled" (it     *)
(* yields the entry that last left Arrivals).                              *)
(***************************************************************************)
EmptyFrontOutcomes == {"throw", "pushing", "filled"}

arrivalsFrontRef(q, emptyFront) ==
  IF q.arrivals # << >> THEN << "arrivals", 1 >>
  ELSE IF emptyFront = "pushing" /\ q.pushing # << >> THEN << "pushing", 1 >>
  ELSE IF emptyFront = "filled" /\ q.filled # << >> THEN << "filled", Len(q.filled) >>
  ELSE << "none", 0 >>

creditPage(q, ref, bytes) ==
  [q EXCEPT ![ref[1]][ref[2]].superpage.received = @ + bytes]

entryAt(q, ref) == q[ref[1]][ref[2]]

\* harvestPage without the decrement of mFifoSize.
harvestPageKeepsFifoSize(st, ref, pageSize) ==
  LET q1 == creditPage(st.q, ref, pageSize)
      st1 == [st EXCEPT !.fifo[st.back] = StatusNone,
                        !.back = (@ + 1) % READYFIFO_ENTRIES,
                        !.received = @ + 1,
                        !.q = q1]
  IN IF isFilled(entryAt(q1, ref).superpage)
     THEN LET q2 == [q1 EXCEPT ![ref[1]][ref[2]].superpage.ready = TRUE]
          IN IF q2.arrivals = << >>
             THEN [st1 EXCEPT !.q = q2, !.err = "QueueEmpty"]
             ELSE [st1 EXCEPT !.q = moveFromArrivalsToFilledQueue(q2)]
     ELSE st1

\* harvestPage without the reset of the consumed slot.
harvestPageKeepsSlot(st, ref, pageSize) ==
  LET q1 == creditPage(st.q, ref, pageSize)
      pageAddress == entryAt(st.q, ref).superpage.offset + entryAt(st.q, ref).superpage.received
      st1 == [st EXCEPT !.sdh = Append(@, pageAddress),
                        !.size = @ - 1,
                        !.back = (@ + 1) % READYFIFO_ENTRIES,
                        !.received = @ + 1,
                        !.q = q1]
  IN IF isFilled(entryAt(q1, ref).superpage)
     THEN LET q2 == [q1 EXCEPT ![ref[1]][ref[2]].superpage.ready = TRUE]
          IN IF q2.arrivals = << >>
             THEN [st1 EXCEPT !.q = q2, !.err = "QueueEmpty"]
             ELSE [st1 EXCEPT !.q = moveFromArrivalsToFilledQueue(q2)]
     ELSE st1

\* One arrived page: lines 341-371 of fillSuperpages.  The SDH is patched at
\* the page the front entry's offset and received name.
harvestPage(st, ref, pageSize) ==
  LET q1 == creditPage(st.q, ref, pageSize)
      pageAddress == entryAt(st.q, ref).superpage.offset + entryAt(st.q, ref).superpage.received
      st1 == [st EXCEPT !.sdh = Append(@, pageAddress),
                        !.fifo[st.back] = StatusNone,
                        !.size = @ - 1,
                        !.back = (@ + 1) % READYFIFO_ENTRIES,
                        !.received = @ + 1,
                        !.q = q1]
  IN IF isFilled(entryAt(q1, ref).superpage)
     THEN LET q2 == [q1 EXCEPT ![ref[1]][ref[2]].superpage.ready = TRUE]
          IN IF q2.arrivals = << >>
             THEN [st1 EXCEPT !.q = q2, !.err = "QueueEmpty"]
             ELSE [st1 EXCEPT !.q = moveFromArrivalsToFilledQueue(q2)]
     ELSE st1

RECURSIVE arrivalLoop(_, _, _)
arrivalLoop(st, pageSize, emptyFront) ==
  IF st.err # "none" \/ st.size <= 0 THEN st
  ELSE LET ref == arrivalsFrontRef(st.q, emptyFront)
           arrived == dataArrived(st.fifo[st.back])
       IN IF ref[1] = "none" THEN [st EXCEPT !.err = "ArrivalsEmpty"]
          ELSE IF arrived = "Exception" THEN [st EXCEPT !.err = "DataArrival"]
          ELSE IF arrived = "WholeArrived"
               THEN arrivalLoop(harvestPage(st, ref, pageSize), pageSize, emptyFront)
          ELSE st

arrivalPhase(st, pageSize, emptyFront) ==
  IF st.err = "none" /\ st.q.arrivals # << >>
  THEN arrivalLoop(st, pageSize, emptyFront)
  ELSE st

\* startPendingDma priming the ring without crediting the primed pages.
startPendingDmaUncredited(st, pageSize, lastStatus) ==
  LET st1 == pushPages([st EXCEPT !.fifo = ReadyFifoReset], READYFIFO_ENTRIES)
      st2 == IF isPushed(st1.q.pushing[1])
             THEN [st1 EXCEPT !.q = removeFromPushingQueue(@)] ELSE st1
  IN IF dataArrived(lastStatus) = "Exception"
     THEN [st2 EXCEPT !.fifo[READYFIFO_ENTRIES - 1] = lastStatus, !.err = "DataArrival"]
     ELSE [st2 EXCEPT !.fifo = ReadyFifoReset, !.back = 0, !.size = 0,
                      !.received = @ + READYFIFO_ENTRIES, !.pending = FALSE]

(***************************************************************************)
(* startPendingDma(entry), entry being the front of Pushing.  lastStatus   *)
(* is the status word the card has left in the last primed slot when the   *)
(* fixed wait is over.  The caller has checked mPendingDmaStart.           *)
(***************************************************************************)
startPendingDma(st, pageSize, lastStatus) ==
  LET st1 == pushPages([st EXCEPT !.fifo = ReadyFifoReset], READYFIFO_ENTRIES)
      moved == isPushed(st1.q.pushing[1])
      st2 == IF moved THEN [st1 EXCEPT !.q = removeFromPushingQueue(@)] ELSE st1
      ref == IF moved THEN << "arrivals", Len(st2.q.arrivals) >> ELSE << "pushing", 1 >>
      st3 == [st2 EXCEPT !.fifo[READYFIFO_ENTRIES - 1] = lastStatus]
      q4 == creditPage(st3.q, ref, READYFIFO_ENTRIES * pageSize)
      st4 == [st3 EXCEPT !.q = q4, !.received = @ + READYFIFO_ENTRIES]
      q5 == [q4 EXCEPT ![ref[1]][ref[2]].superpage.ready = TRUE]
      st5 == IF isFilled(entryAt(q4, ref).superpage)
             THEN IF q5.arrivals = << >>
                  THEN [st4 EXCEPT !.q = q5, !.err = "QueueEmpty"]
                  ELSE [st4 EXCEPT !.q = moveFromArrivalsToFilledQueue(q5)]
             ELSE st4
  IN IF dataArrived(lastStatus) = "Exception" THEN [st3 EXCEPT !.err = "DataArrival"]
     ELSE IF st5.err # "none" THEN st5
     ELSE [st5 EXCEPT !.fifo = ReadyFifoReset, !.back = 0, !.size = 0,
                      !.pending = FALSE]

\* fillSuperpages: at most one push phase and one arrival phase.
fillSuperpages(st, pageSize, lastStatus, emptyFront) ==
  LET st1 == IF st.q.pushing # << >>
             THEN IF st.pending
                  THEN startPendingDma(st, pageSize, lastStatus)
                  ELSE pushPhase(st)
             ELSE st
  IN arrivalPhase(st1, pageSize, emptyFront)

\* The choices a call of fillSuperpages reads: the status of the last primed
\* slot when it primes the ring, the outcome of the front accessor when it
\* reads it with Arrivals empty.
primingStatuses(st) ==
  IF st.pending /\ st.q.pushing # << >> THEN StatusValues ELSE {StatusWhole}

emptyFrontChoices(st, pageSize) ==
  IF fillSuperpages(st, pageSize, StatusWhole, "throw").err = "ArrivalsEmpty"
  THEN EmptyFrontOutcomes ELSE {"throw"}

\* The assertion of pushIntoSuperpage that the priming loop can break.
primingOverruns(st) ==
  /\ st.q.pushing # << >>
  /\ st.pending
  /\ st.q.pushing[1].maxPages < READYFIFO_ENTRIES

\* checkSuperpage of the channel base class.
checkSuperpage(sp) ==
  IF sp.size = 0 THEN "BadSize"
  ELSE IF sp.offset + sp.size > BufferSize THEN "OutOfRange"
  ELSE IF sp.offset % OFFSET_ALIGNMENT # 0 THEN "BadAlignment"
  ELSE "none"

\* crorcPushError without the test of the size against 1 MiB.
crorcPushErrorAnySize(q, sp) ==
  IF checkSuperpage(sp) # "none" THEN checkSuperpage(sp)
  ELSE IF getQueueAvailable(q) = 0 THEN "QueueFull"
  ELSE "none"

\* The error CrorcDmaChannel::pushSuperpage ends with, "none" when it accepts.
crorcPushError(q, sp) ==
  IF checkSuperpage(sp) # "none" THEN checkSuperpage(sp)
  ELSE IF ~ isMultiple(sp.size, MIN_SIZE) THEN "BadSize"
  ELSE IF getQueueAvailable(q) = 0 THEN "QueueFull"
  ELSE "none"

crorcMakeEntry(sp, pageSize) ==
  [superpage |-> [sp EXCEPT !.received = 0],
   maxPages |-> sp.size \div pageSize,
   pushedPages |-> 0]

\* dummyPushError testing the queue after the fields.
dummyPushErrorFieldsFirst(transferQueue, sp) ==
  IF sp.size = 0 THEN "BadSize"
  ELSE IF ~ isMultiple(sp.size, DUMMY_GRANULE) THEN "BadSize"
  ELSE IF sp.offset + sp.size > BufferSize THEN "OutOfRange"
  ELSE IF sp.offset % OFFSET_ALIGNMENT # 0 THEN "BadAlignment"
  ELSE IF TRANSFER_QUEUE_SIZE - Len(transferQueue) = 0 THEN "QueueFull"
  ELSE "none"

\* The error DummyDmaChannel::pushSuperpage ends with, "none" when it accepts.
dummyPushError(transferQueue, sp) ==
  IF TRANSFER_QUEUE_SIZE - Len(transferQueue) = 0 THEN "QueueFull"
  ELSE IF sp.size = 0 THEN "BadSize"
  ELSE IF ~ isMultiple(sp.size, DUMMY_GRANULE) THEN "BadSize"
  ELSE IF sp.offset + sp.size > BufferSize THEN "OutOfRange"
  ELSE IF sp.offset % OFFSET_ALIGNMENT # 0 THEN "BadAlignment"
  ELSE "none"

\* dummyFill putting each superpage at the head of the ready queue.
RECURSIVE dummyFillNewestFirst(_, _, _)
dummyFillNewestFirst(transferQueue, readyQueue, n) ==
  IF n = 0 \/ Len(readyQueue) = READY_QUEUE_SIZE
  THEN << transferQueue, readyQueue >>
  ELSE LET h == Head(transferQueue)
           front == [h EXCEPT !.ready = TRUE, !.received = h.size]
       IN dummyFillNewestFirst(Tail(transferQueue), << front >> \o readyQueue, n - 1)

\* DummyDmaChannel::fillSuperpages on the pair of queues.
RECURSIVE dummyFill(_, _, _)
dummyFill(transferQueue, readyQueue, n) ==
  IF n = 0 \/ Len(readyQueue) = READY_QUEUE_SIZE
  THEN << transferQueue, readyQueue >>
  ELSE LET h == Head(transferQueue)
           front == [h EXCEPT !.ready = TRUE, !.received = h.size]
       IN dummyFill(Tail(transferQueue), Append(readyQueue, front), n - 1)

(***************************************************************************)
(* State after construction.                                               *)
(***************************************************************************)
EngineInit ==
  /\ variant \in {"Crorc", "Dummy"}
  /\ mPageSize \in (IF variant = "Crorc" THEN PageSizes ELSE {DefaultPageSize})
  /\ mSuperpageQueue = EmptyQueue
  /\ mFifoBack = 0
  /\ mFifoSize = 0
  /\ mPendingDmaStart = FALSE
  /\ readyFifo = ReadyFifoReset
  /\ cardActive = FALSE
  /\ chan = "ok"
  /\ mTransferQueue = << >>
  /\ mReadyQueue = << >>
  /\ ret = RetOk
  /\ pushedHist = << >>
  /\ poppedHist = << >>
  /\ pagesPushed = 0
  /\ pagesReceived = 0
  /\ pushCount = 0
  /\ startCount = 0
  /\ script = << >>

\* The card side and the lock side while they are not in use.
NoCall == [op |-> "none", arg |-> "none", again |-> FALSE]
CardSideIdle ==
  /\ mLoopbackMode = "Internal"
  /\ mGeneratorEnabled = TRUE
  /\ cardOps = << >>
  /\ lastCall = NoCall
Procs == 1 .. NProcs
LockSideIdle ==
  /\ fileMutex = 0
  /\ namedMutex = 0
  /\ lockPc = [p \in Procs |-> "idle"]
  /\ lockResult = [p \in Procs |-> "none"]

Bits == 0 .. 31
NotCalled == [err |-> "none", info |-> "not called"]
RegisterSideIdle ==
  /\ rfid = [i \in Bits |-> 0]
  /\ firmwareInfo = NotCalled
NoTarget == 0 - 1
PageSideIdle ==
  /\ ringTarget = [i \in Slots |-> NoTarget]
  /\ sdhWrites = << >>

Init == EngineInit /\ CardSideIdle /\ LockSideIdle /\ RegisterSideIdle /\ PageSideIdle

config == << variant, mPageSize >>
cardSide == << mLoopbackMode, mGeneratorEnabled, cardOps, lastCall >>
lockSide == << fileMutex, namedMutex, lockPc, lockResult >>
registerSide == << rfid, firmwareInfo >>
pageSide == << ringTarget, sdhWrites >>
outside == << cardSide, lockSide, registerSide, pageSide >>
crorcEngine == << mSuperpageQueue, mFifoBack, mFifoSize, mPendingDmaStart, readyFifo >>
dummyEngine == << mTransferQueue, mReadyQueue >>
pageCounters == << pagesPushed, pagesReceived >>

(***************************************************************************)
(* C-RORC channel: client calls.                                           *)
(***************************************************************************)
\* deviceStartDma without the mSuperpageQueue.clear() of line 90.
EngineStartDmaKeepsQueue ==
  /\ variant = "Crorc"
  /\ chan \in {"ok", "failed"}
  /\ startCount < MaxStarts
  /\ mFifoBack' = 0
  /\ mFifoSize' = 0
  /\ mSuperpageQueue' = mSuperpageQueue
  /\ mPendingDmaStart' = TRUE
  /\ chan' = "ok"
  /\ ret' = Ret("start", "none")
  /\ pushedHist' = << >>
  /\ poppedHist' = << >>
  /\ pagesPushed' = 0
  /\ pagesReceived' = 0
  /\ startCount' = startCount + 1
  /\ script' = Track("start")
  /\ UNCHANGED << config, readyFifo, cardActive, dummyEngine, pushCount >>

EngineStartDma ==
  /\ variant = "Crorc"
  /\ chan \in {"ok", "failed"}
  /\ startCount < MaxStarts
  /\ mFifoBack' = 0
  /\ mFifoSize' = 0
  /\ mSuperpageQueue' = EmptyQueue
  /\ mPendingDmaStart' = TRUE
  /\ chan' = "ok"
  /\ ret' = Ret("start", "none")
  /\ pushedHist' = << >>
  /\ poppedHist' = << >>
  /\ pagesPushed' = 0
  /\ pagesReceived' = 0
  /\ startCount' = startCount + 1
  /\ script' = Track("start")
  /\ UNCHANGED << config, readyFifo, cardActive, dummyEngine, pushCount >>

CrorcStartDma == EngineStartDma /\ UNCHANGED outside

CrorcStopDma ==
  /\ variant = "Crorc"
  /\ chan = "ok"
  /\ ret' = RetOk
  /\ script' = Track("stop")
  /\ UNCHANGED << config, crorcEngine, cardActive, chan, dummyEngine, pushedHist, poppedHist,
                  pageCounters, pushCount, startCount >>
  /\ UNCHANGED outside

PushCall(sp, err) ==
  IF err = "none" /\ sp = Superpage0 THEN "push0" ELSE "push"

EnginePush(sp) ==
  /\ variant = "Crorc"
  /\ chan = "ok"
  /\ pushCount < MaxPushes
  /\ LET err == crorcPushError(mSuperpageQueue, sp)
     IN /\ ret' = Ret("push", err)
        /\ script' = Track(PushCall(sp, err))
        /\ IF err = "none"
           THEN /\ mSuperpageQueue' =
                     addToQueue(mSuperpageQueue, crorcMakeEntry(sp, mPageSize))
                /\ pushedHist' = Append(pushedHist, sp.offset)
                /\ pushCount' = pushCount + 1
           ELSE UNCHANGED << mSuperpageQueue, pushedHist, pushCount >>
  /\ UNCHANGED << config, mFifoBack, mFifoSize, mPendingDmaStart, readyFifo,
                  cardActive, chan, dummyEngine, poppedHist, pageCounters,
                  startCount >>

CrorcPush(sp) == EnginePush(sp) /\ UNCHANGED outside

CrorcPushSuperpage == \E sp \in ClientSuperpages : CrorcPush(sp)

EnginePopSuperpage ==
  /\ variant = "Crorc"
  /\ chan = "ok"
  /\ IF mSuperpageQueue.filled = << >>
     THEN /\ ret' = Ret("pop", "QueueEmpty")
          /\ UNCHANGED << mSuperpageQueue, poppedHist >>
     ELSE /\ ret' = RetSp("pop", Head(mSuperpageQueue.filled).superpage)
          /\ mSuperpageQueue' = removeFromFilledQueue(mSuperpageQueue)
          /\ poppedHist' = Append(poppedHist, Head(mSuperpageQueue.filled).superpage.offset)
  /\ script' = Track("pop")
  /\ UNCHANGED << config, mFifoBack, mFifoSize, mPendingDmaStart, readyFifo,
                  cardActive, chan, dummyEngine, pushedHist, pageCounters,
                  pushCount, startCount >>

CrorcPopSuperpage == EnginePopSuperpage /\ UNCHANGED outside

\* getFrontSuperpage peeks the head of Filled; with Filled empty it yields the
\* front of the whole queue, or fails when the queue holds nothing.
getFrontSuperpage(q) ==
  IF q.filled # << >> THEN RetSp("get", Head(q.filled).superpage)
  ELSE IF q.arrivals # << >> THEN RetSp("get", Head(q.arrivals).superpage)
  ELSE IF q.pushing # << >> THEN RetSp("get", Head(q.pushing).superpage)
  ELSE Ret("get", "FrontEmpty")

\* getSuperpage reads and returns; nothing of the channel changes.
CrorcGetSuperpage ==
  /\ variant = "Crorc"
  /\ chan = "ok"
  /\ getFrontSuperpage(mSuperpageQueue) \in [op : {"get"}, err : {"none", "FrontEmpty"},
                                             sp : ClientResults]
  /\ UNCHANGED vars

EngineFill(lastStatus, emptyFront, assertsEnabled) ==
  /\ variant = "Crorc"
  /\ chan = "ok"
  /\ IF assertsEnabled
     THEN /\ chan' = "aborted"
          /\ ret' = Ret("fill", "Abort")
          /\ UNCHANGED << crorcEngine, cardActive, pageCounters >>
     ELSE LET st == fillSuperpages(Engine, mPageSize, lastStatus, emptyFront)
          IN /\ mSuperpageQueue' = st.q
             /\ mFifoBack' = st.back
             /\ mFifoSize' = st.size
             /\ mPendingDmaStart' = st.pending
             /\ readyFifo' = st.fifo
             /\ pagesPushed' = st.pushed
             /\ pagesReceived' = st.received
             /\ cardActive' = (cardActive \/
                                 (mPendingDmaStart /\ mSuperpageQueue.pushing # << >>))
             /\ chan' = IF st.err = "DataArrival" THEN "failed" ELSE "ok"
             /\ ret' = Ret("fill", st.err)
  /\ script' = Track("fill")
  /\ UNCHANGED << config, dummyEngine, pushedHist, poppedHist, pushCount, startCount >>

CrorcFillSuperpages ==
  \E lastStatus \in primingStatuses(Engine),
     emptyFront \in emptyFrontChoices(Engine, mPageSize),
     assertsEnabled \in (IF primingOverruns(Engine) THEN BOOLEAN ELSE {FALSE}) :
    EngineFill(lastStatus, emptyFront, assertsEnabled) /\ UNCHANGED outside

(***************************************************************************)
(* The card: it completes the outstanding descriptors in ring order and    *)
(* writes a status word into the Ready-FIFO slot of each.                  *)
(***************************************************************************)
RECURSIVE firstIncomplete(_, _, _, _)
firstIncomplete(fifo, back, size, k) ==
  IF k >= size THEN 0 - 1
  ELSE IF fifo[(back + k) % READYFIFO_ENTRIES] = StatusWhole
       THEN firstIncomplete(fifo, back, size, k + 1)
       ELSE (back + k) % READYFIFO_ENTRIES

CardWritesStatus ==
  /\ variant = "Crorc"
  /\ chan = "ok"
  /\ cardActive
  /\ LET slot == firstIncomplete(readyFifo, mFifoBack, mFifoSize, 0)
     IN /\ slot >= 0
        /\ readyFifo[slot] \in {StatusNone, StatusPart}
        /\ \E status \in StatusValues \ {StatusNone, readyFifo[slot]} :
             readyFifo' = [readyFifo EXCEPT ![slot] = status]
  /\ UNCHANGED << config, mSuperpageQueue, mFifoBack, mFifoSize, mPendingDmaStart,
                  cardActive, chan, dummyEngine, ret, pushedHist, poppedHist,
                  pageCounters, pushCount, startCount, script >>
  /\ UNCHANGED outside

(***************************************************************************)
(* Dummy channel: client calls.                                            *)
(***************************************************************************)
DummyStartDma ==
  /\ variant = "Dummy"
  /\ startCount < MaxStarts
  /\ mTransferQueue' = << >>
  /\ mReadyQueue' = << >>
  /\ ret' = Ret("start", "none")
  /\ pushedHist' = << >>
  /\ poppedHist' = << >>
  /\ startCount' = startCount + 1
  /\ script' = Track("start")
  /\ UNCHANGED << config, crorcEngine, cardActive, chan, pageCounters, pushCount >>
  /\ UNCHANGED outside

DummyStopDma ==
  /\ variant = "Dummy"
  /\ ret' = RetOk
  /\ script' = Track("stop")
  /\ UNCHANGED << config, crorcEngine, cardActive, chan, dummyEngine, pushedHist,
                  poppedHist, pageCounters, pushCount, startCount >>
  /\ UNCHANGED outside

DummyPush(sp) ==
  /\ variant = "Dummy"
  /\ pushCount < MaxPushes
  /\ LET err == dummyPushError(mTransferQueue, sp)
     IN /\ ret' = Ret("push", err)
        /\ script' = Track(PushCall(sp, err))
        /\ IF err = "none"
           THEN /\ mTransferQueue' = Append(mTransferQueue, sp)
                /\ pushedHist' = Append(pushedHist, sp.offset)
                /\ pushCount' = pushCount + 1
           ELSE UNCHANGED << mTransferQueue, pushedHist, pushCount >>
  /\ UNCHANGED << config, crorcEngine, cardActive, chan, mReadyQueue, poppedHist,
                  pageCounters, startCount >>
  /\ UNCHANGED outside

DummyPushSuperpage == \E sp \in ClientSuperpages : DummyPush(sp)

\* What front() of an empty ready queue may yield: stale or blank storage.
StaleSuperpages ==
  {NoSuperpage,
   [offset |-> 0, size |-> MIN_SIZE, received |-> MIN_SIZE, ready |-> TRUE]}

\* DummyDmaChannel::getSuperpage: the front of the ready queue.
dummyGetSuperpage(readyQueue, stale) ==
  IF readyQueue # << >> THEN Head(readyQueue) ELSE stale

DummyGetSuperpage ==
  /\ variant = "Dummy"
  /\ \E stale \in StaleSuperpages :
       dummyGetSuperpage(mReadyQueue, stale) \in ClientResults
  /\ UNCHANGED vars

\* dummyPopSuperpage taking the newest superpage instead of the oldest.
dummyPopSuperpageNewest(readyQueue) ==
  << readyQueue[Len(readyQueue)], SubSeq(readyQueue, 1, Len(readyQueue) - 1) >>

\* DummyDmaChannel::popSuperpage with the ready queue not empty: the
\* superpage returned and the queue left.
dummyPopSuperpage(readyQueue) == << Head(readyQueue), Tail(readyQueue) >>

DummyPopSuperpage ==
  /\ variant = "Dummy"
  /\ IF mReadyQueue = << >>
     THEN /\ ret' = Ret("pop", "QueueEmpty")
          /\ UNCHANGED << mReadyQueue, poppedHist >>
     ELSE LET r == dummyPopSuperpage(mReadyQueue)
          IN /\ ret' = RetSp("pop", r[1])
             /\ mReadyQueue' = r[2]
             /\ poppedHist' = Append(poppedHist, r[1].offset)
  /\ script' = Track("pop")
  /\ UNCHANGED << config, crorcEngine, cardActive, chan, mTransferQueue, pushedHist,
                  pageCounters, pushCount, startCount >>
  /\ UNCHANGED outside

DummyFillSuperpages ==
  /\ variant = "Dummy"
  /\ LET r == dummyFill(mTransferQueue, mReadyQueue, Len(mTransferQueue))
     IN /\ mTransferQueue' = r[1]
        /\ mReadyQueue' = r[2]
  /\ ret' = RetOk
  /\ script' = Track("fill")
  /\ UNCHANGED << config, crorcEngine, cardActive, chan, pushedHist, poppedHist,
                  pageCounters, pushCount, startCount >>
  /\ UNCHANGED outside

Next ==
  \/ CrorcStartDma
  \/ CrorcStopDma
  \/ CrorcPushSuperpage
  \/ CrorcPopSuperpage
  \/ CrorcGetSuperpage
  \/ CrorcFillSuperpages
  \/ CardWritesStatus
  \/ DummyStartDma
  \/ DummyStopDma
  \/ DummyPushSuperpage
  \/ DummyGetSuperpage
  \/ DummyPopSuperpage
  \/ DummyFillSuperpages

Spec == Init /\ [][Next]_vars

(***************************************************************************)
(* The C-RORC channel with the calls it makes to the card.  cardOps is the *)
(* sequence of Card Ops calls and sleeps of the last client call.  A call  *)
(* to the card made by stop_dma or reset_channel may fail: the call then   *)
(* ends with the exception at that point.                                  *)
(***************************************************************************)
LoopbackModes == {"None", "Internal", "Siu", "Diu", "RORC"}
ResetLevels == {"Nothing", "Internal", "InternalDiuSiu"}
isExternal(mode) == mode \in {"Siu", "Diu"}
mNoRDYRX == TRUE
mInitialResetLevel == "Internal"
mUseContinuousReadout == FALSE

RECURSIVE Repeat(_, _)
Repeat(op, n) == IF n <= 0 THEN << >> ELSE << op >> \o Repeat(op, n - 1)

\* deviceResetChannel without the early return for ResetLevel::Nothing.
deviceResetChannelAlways(resetLevel, mode) ==
  (IF resetLevel = "Internal"
   THEN << "resetCommand(FF)", "resetCommand(RORC)" >> ELSE << >>)
  \o (IF isExternal(mode)
      THEN << "armDdl(DIU)" >>
           \o (IF resetLevel = "InternalDiuSiu" /\ mode # "Diu"
               THEN << "sleep", "armDdl(SIU)", "armDdl(DIU)" >> ELSE << >>)
           \o << "armDdl(RORC)" >>
      ELSE << >>)
  \o << "sleep" >>

deviceResetChannel(resetLevel, mode) ==
  IF resetLevel = "Nothing" THEN << >>
  ELSE (IF resetLevel = "Internal"
        THEN << "resetCommand(FF)", "resetCommand(RORC)" >> ELSE << >>)
       \o (IF isExternal(mode)
           THEN << "armDdl(DIU)" >>
                \o (IF resetLevel = "InternalDiuSiu" /\ mode # "Diu"
                    THEN << "sleep", "armDdl(SIU)", "armDdl(DIU)" >> ELSE << >>)
                \o << "armDdl(RORC)" >>
           ELSE << >>)
       \o << "sleep" >>

startDataGenerator(mode) ==
  (IF mode = "None" THEN << "startTrigger" >> ELSE << >>)
  \o << "armDataGenerator" >>
  \o (IF mode = "Internal" THEN << "setLoopbackOn", "sleep" >> ELSE << >>)
  \o (IF mode = "Siu"
      THEN << "setSiuLoopback", "sleep", "assertLinkUp", "siuCommand", "diuCommand" >>
      ELSE << >>)
  \o << "startDataGenerator" >>

startDataReceiving(mode) ==
  << "initDiuVersion" >>
  \o (IF mode = "Siu"
      THEN deviceResetChannel("InternalDiuSiu", mode)
           \o << "assertLinkUp", "siuCommand", "diuCommand" >>
      ELSE << >>)
  \o << "resetCommand(FF)", "sleep", "assertFreeFifoEmpty", "startDataReceiver" >>

deviceStopDma(generatorEnabled, mode) ==
  IF generatorEnabled
  THEN startDataGenerator(mode) \o << "stopDataGenerator", "stopDataReceiver" >>
  ELSE IF ~ mNoRDYRX THEN << "stopTrigger" >> ELSE << >>

\* startPendingDma starting the generator or the trigger before it primes the
\* ring.
startPendingDmaOpsProducerFirst(generatorEnabled, mode) ==
  (IF mUseContinuousReadout THEN << "initReadoutContinuous" >> ELSE << >>)
  \o << "initDiuVersion" >>
  \o deviceResetChannel(mInitialResetLevel, mode)
  \o startDataReceiving(mode)
  \o (IF generatorEnabled THEN startDataGenerator(mode)
      ELSE IF ~ mNoRDYRX
           THEN << "assertLinkUp", "siuCommand", "diuCommand", "startTrigger" >>
           ELSE << >>)
  \o Repeat("pushRxFreeFifo", READYFIFO_ENTRIES)
  \o << "sleep" >>
  \o (IF mUseContinuousReadout THEN << "startReadoutContinuous" >> ELSE << >>)

\* The calls startPendingDma makes to the card.
startPendingDmaOps(generatorEnabled, mode) ==
  (IF mUseContinuousReadout THEN << "initReadoutContinuous" >> ELSE << >>)
  \o << "initDiuVersion" >>
  \o deviceResetChannel(mInitialResetLevel, mode)
  \o startDataReceiving(mode)
  \o Repeat("pushRxFreeFifo", READYFIFO_ENTRIES)
  \o (IF generatorEnabled THEN startDataGenerator(mode)
      ELSE IF ~ mNoRDYRX
           THEN << "assertLinkUp", "siuCommand", "diuCommand", "startTrigger" >>
           ELSE << >>)
  \o << "sleep" >>
  \o (IF mUseContinuousReadout THEN << "startReadoutContinuous" >> ELSE << >>)

\* The calls a tick makes to the card: the deferred start when it is pending
\* and Pushing is not empty, else one pushRxFreeFifo per page pushed.
fillSuperpagesOps(st, after, generatorEnabled, mode) ==
  IF st.q.pushing # << >> /\ st.pending
  THEN startPendingDmaOps(generatorEnabled, mode)
  ELSE Repeat("pushRxFreeFifo", after.pushed - st.pushed)

\* Where a sequence of calls may fail (0: nowhere), and the calls made then.
FailChoices(ops) == {0} \cup { i \in 1 .. Len(ops) : ops[i] # "sleep" }
Issued(ops, fail) == IF fail = 0 THEN ops ELSE SubSeq(ops, 1, fail)
Call(op, arg) == [op |-> op, arg |-> arg, again |-> lastCall.op = op]
OpsSuperpages ==
  { Superpage0, [Superpage0 EXCEPT !.size = 2 * MIN_SIZE], [Superpage0 EXCEPT !.offset = 3] }

InitCardOps ==
  /\ EngineInit
  /\ variant = "Crorc"
  /\ mPageSize = DefaultPageSize
  /\ mLoopbackMode \in LoopbackModes
  /\ mGeneratorEnabled \in BOOLEAN
  /\ cardOps = << >>
  /\ lastCall = NoCall
  /\ LockSideIdle
  /\ RegisterSideIdle
  /\ PageSideIdle

cardConfig == << mLoopbackMode, mGeneratorEnabled >>

OpsStartDma ==
  /\ EngineStartDma
  /\ cardOps' = << >>
  /\ lastCall' = Call("start", "none")
  /\ UNCHANGED << cardConfig, lockSide, registerSide, pageSide >>

OpsStop(fail) ==
  /\ variant = "Crorc"
  /\ chan = "ok"
  /\ fail \in FailChoices(deviceStopDma(mGeneratorEnabled, mLoopbackMode))
  /\ cardOps' = Issued(deviceStopDma(mGeneratorEnabled, mLoopbackMode), fail)
  /\ ret' = Ret("stop", IF fail = 0 THEN "none" ELSE "CardError")
  /\ lastCall' = Call("stop", "none")
  /\ script' = Track("stop")
  /\ UNCHANGED << config, crorcEngine, cardActive, chan, dummyEngine, pushedHist,
                  poppedHist, pageCounters, pushCount, startCount, cardConfig, lockSide, registerSide, pageSide >>

OpsStopDma ==
  \E fail \in FailChoices(deviceStopDma(mGeneratorEnabled, mLoopbackMode)) : OpsStop(fail)

OpsReset(resetLevel, fail) ==
  /\ variant = "Crorc"
  /\ chan = "ok"
  /\ fail \in FailChoices(deviceResetChannel(resetLevel, mLoopbackMode))
  /\ cardOps' = Issued(deviceResetChannel(resetLevel, mLoopbackMode), fail)
  /\ ret' = Ret("reset", IF fail = 0 THEN "none" ELSE "CardError")
  /\ lastCall' = Call("reset", resetLevel)
  /\ script' = Track("reset")
  /\ UNCHANGED << config, crorcEngine, cardActive, chan, dummyEngine, pushedHist,
                  poppedHist, pageCounters, pushCount, startCount, cardConfig, lockSide, registerSide, pageSide >>

OpsResetChannel ==
  \E resetLevel \in ResetLevels :
    \E fail \in FailChoices(deviceResetChannel(resetLevel, mLoopbackMode)) :
      OpsReset(resetLevel, fail)

OpsPushSuperpage ==
  /\ pushCount < MaxOpsPushes
  /\ \E sp \in OpsSuperpages : EnginePush(sp)
  /\ cardOps' = << >>
  /\ lastCall' = Call("push", "none")
  /\ UNCHANGED << cardConfig, lockSide, registerSide, pageSide >>

OpsPopSuperpage ==
  /\ EnginePopSuperpage
  /\ cardOps' = << >>
  /\ lastCall' = Call("pop", "none")
  /\ UNCHANGED << cardConfig, lockSide, registerSide, pageSide >>

OpsFillSuperpages ==
  /\ EngineFill(StatusWhole, "throw", FALSE)
  /\ cardOps' = fillSuperpagesOps(Engine,
                                  fillSuperpages(Engine, mPageSize, StatusWhole, "throw"),
                                  mGeneratorEnabled, mLoopbackMode)
  /\ lastCall' = Call("fill", "none")
  /\ UNCHANGED << cardConfig, lockSide, registerSide, pageSide >>

NextCardOps ==
  \/ OpsStartDma
  \/ OpsStopDma
  \/ OpsResetChannel
  \/ OpsPushSuperpage
  \/ OpsPopSuperpage
  \/ OpsFillSuperpages
  \/ CardWritesStatus

SpecCardOps == InitCardOps /\ [][NextCardOps]_vars

(***************************************************************************)
(* Interprocess::Lock on the lock file and the named mutex of one channel. *)
(* Each process constructs the Lock in try mode (std::try_lock) or in wait *)
(* mode (std::lock), destroys it, or is terminated unexpectedly.           *)
(* fileMutex and namedMutex hold 0 when free, else the process holding     *)
(* them; the named mutex of a terminated process stays locked (Stale).     *)
(***************************************************************************)
Stale == NProcs + 1
channelSide == << config, crorcEngine, dummyEngine, cardActive, chan, ret, pushedHist,
                  poppedHist, pageCounters, pushCount, startCount, script, cardSide,
                  registerSide, pageSide >>

InitLock ==
  /\ EngineInit
  /\ variant = "Crorc"
  /\ mPageSize = DefaultPageSize
  /\ CardSideIdle
  /\ LockSideIdle
  /\ RegisterSideIdle
  /\ PageSideIdle

\* Lock(..., waitOnLock = false): the locks are deferred, then std::try_lock.
LockTryBegin(p) ==
  /\ lockPc[p] = "idle"
  /\ lockPc' = [lockPc EXCEPT ![p] = "tryFile"]
  /\ lockResult' = [lockResult EXCEPT ![p] = "none"]
  /\ UNCHANGED << fileMutex, namedMutex, channelSide >>

\* std::try_lock, first lock: mFileLock.try_lock(); result 0 when it fails.
LockTryFile(p) ==
  /\ lockPc[p] = "tryFile"
  /\ IF fileMutex = 0
     THEN /\ fileMutex' = p
          /\ lockPc' = [lockPc EXCEPT ![p] = "tryNamed"]
          /\ UNCHANGED lockResult
     ELSE /\ lockPc' = [lockPc EXCEPT ![p] = "idle"]
          /\ lockResult' = [lockResult EXCEPT ![p] = "FileLockException"]
          /\ UNCHANGED fileMutex
  /\ UNCHANGED << namedMutex, channelSide >>

\* std::try_lock whose second try_lock keeps the first lock when it fails.
LockTryNamedKeepsFile(p) ==
  /\ lockPc[p] = "tryNamed"
  /\ IF namedMutex = 0
     THEN /\ namedMutex' = p
          /\ lockPc' = [lockPc EXCEPT ![p] = "held"]
          /\ lockResult' = [lockResult EXCEPT ![p] = "ok"]
          /\ UNCHANGED fileMutex
     ELSE /\ lockPc' = [lockPc EXCEPT ![p] = "idle"]
          /\ lockResult' = [lockResult EXCEPT ![p] = "NamedMutexLockException"]
          /\ UNCHANGED << fileMutex, namedMutex >>
  /\ UNCHANGED channelSide

\* std::try_lock, second lock: mNamedLock.try_lock(); when it fails the first
\* lock is unlocked and the result is 1.
LockTryNamed(p) ==
  /\ lockPc[p] = "tryNamed"
  /\ IF namedMutex = 0
     THEN /\ namedMutex' = p
          /\ lockPc' = [lockPc EXCEPT ![p] = "held"]
          /\ lockResult' = [lockResult EXCEPT ![p] = "ok"]
          /\ UNCHANGED fileMutex
     ELSE /\ fileMutex' = 0
          /\ lockPc' = [lockPc EXCEPT ![p] = "idle"]
          /\ lockResult' = [lockResult EXCEPT ![p] = "NamedMutexLockException"]
          /\ UNCHANGED namedMutex
  /\ UNCHANGED channelSide

\* Lock(..., waitOnLock = true): the locks are deferred, then std::lock.
LockWaitBegin(p) ==
  /\ lockPc[p] = "idle"
  /\ lockPc' = [lockPc EXCEPT ![p] = "waiting"]
  /\ lockResult' = [lockResult EXCEPT ![p] = "none"]
  /\ UNCHANGED << fileMutex, namedMutex, channelSide >>

\* std::lock blocks on one of the two locks whatever the other's holder.
LockWaitFirstBlind(p) ==
  /\ lockPc[p] = "waiting"
  /\ \/ /\ fileMutex' = p
        /\ lockPc' = [lockPc EXCEPT ![p] = "waitHasFile"]
        /\ UNCHANGED namedMutex
     \/ /\ namedMutex' = p
        /\ lockPc' = [lockPc EXCEPT ![p] = "waitHasNamed"]
        /\ UNCHANGED fileMutex
  /\ UNCHANGED << lockResult, channelSide >>

\* std::lock blocks on one of the two locks: which one, after a failed round,
\* is left to the implementation.
LockWaitFirst(p) ==
  /\ lockPc[p] = "waiting"
  /\ \/ /\ fileMutex = 0
        /\ fileMutex' = p
        /\ lockPc' = [lockPc EXCEPT ![p] = "waitHasFile"]
        /\ UNCHANGED namedMutex
     \/ /\ namedMutex = 0
        /\ namedMutex' = p
        /\ lockPc' = [lockPc EXCEPT ![p] = "waitHasNamed"]
        /\ UNCHANGED fileMutex
  /\ UNCHANGED << lockResult, channelSide >>

\* std::lock keeping the lock it holds while it waits for the other one.
LockWaitOtherHolding(p) ==
  /\ \/ /\ lockPc[p] = "waitHasFile"
        /\ namedMutex = 0
        /\ namedMutex' = p
        /\ UNCHANGED fileMutex
     \/ /\ lockPc[p] = "waitHasNamed"
        /\ fileMutex = 0
        /\ fileMutex' = p
        /\ UNCHANGED namedMutex
  /\ lockPc' = [lockPc EXCEPT ![p] = "held"]
  /\ lockResult' = [lockResult EXCEPT ![p] = "ok"]
  /\ UNCHANGED channelSide

\* std::lock then tries the other lock; when that fails it unlocks the one it
\* holds and starts again.
LockWaitOther(p) ==
  /\ \/ /\ lockPc[p] = "waitHasFile"
        /\ IF namedMutex = 0
           THEN /\ namedMutex' = p
                /\ lockPc' = [lockPc EXCEPT ![p] = "held"]
                /\ lockResult' = [lockResult EXCEPT ![p] = "ok"]
                /\ UNCHANGED fileMutex
           ELSE /\ fileMutex' = 0
                /\ lockPc' = [lockPc EXCEPT ![p] = "waiting"]
                /\ UNCHANGED << namedMutex, lockResult >>
     \/ /\ lockPc[p] = "waitHasNamed"
        /\ IF fileMutex = 0
           THEN /\ fileMutex' = p
                /\ lockPc' = [lockPc EXCEPT ![p] = "held"]
                /\ lockResult' = [lockResult EXCEPT ![p] = "ok"]
                /\ UNCHANGED namedMutex
           ELSE /\ namedMutex' = 0
                /\ lockPc' = [lockPc EXCEPT ![p] = "waiting"]
                /\ UNCHANGED << fileMutex, lockResult >>
  /\ UNCHANGED channelSide

\* ~Lock: mNamedLock is destroyed first, then mFileLock.
LockReleaseNamed(p) ==
  /\ lockPc[p] = "held"
  /\ namedMutex' = 0
  /\ lockPc' = [lockPc EXCEPT ![p] = "releasing"]
  /\ UNCHANGED << fileMutex, lockResult, channelSide >>

LockReleaseFile(p) ==
  /\ lockPc[p] = "releasing"
  /\ fileMutex' = 0
  /\ lockPc' = [lockPc EXCEPT ![p] = "idle"]
  /\ lockResult' = [lockResult EXCEPT ![p] = "none"]
  /\ UNCHANGED << namedMutex, channelSide >>

\* The process is terminated unexpectedly: its file lock is unlocked, its
\* named mutex is not.  A new process may then take its place.
LockCrash(p) ==
  /\ lockPc[p] \in {"tryNamed", "waitHasFile", "waitHasNamed", "held", "releasing"}
  /\ fileMutex' = IF fileMutex = p THEN 0 ELSE fileMutex
  /\ namedMutex' = IF namedMutex = p THEN Stale ELSE namedMutex
  /\ lockPc' = [lockPc EXCEPT ![p] = "idle"]
  /\ lockResult' = [lockResult EXCEPT ![p] = "none"]
  /\ UNCHANGED channelSide

\* Manual cleanup of the named mutex left locked by a terminated process.
LockCleanup ==
  /\ namedMutex = Stale
  /\ namedMutex' = 0
  /\ UNCHANGED << fileMutex, lockPc, lockResult, channelSide >>

NextLock ==
  \/ \E p \in Procs : LockTryBegin(p)
  \/ \E p \in Procs : LockTryFile(p)
  \/ \E p \in Procs : LockTryNamed(p)
  \/ \E p \in Procs : LockWaitBegin(p)
  \/ \E p \in Procs : LockWaitFirst(p)
  \/ \E p \in Procs : LockWaitOther(p)
  \/ \E p \in Procs : LockReleaseNamed(p)
  \/ \E p \in Procs : LockReleaseFile(p)
  \/ \E p \in Procs : LockCrash(p)
  \/ LockCleanup

SpecLock == InitLock /\ [][NextLock]_vars

\* The scheduling of the processes: a process that can take a step of its
\* construction or destruction takes it; a waiter gets a turn at a lock that
\* is free again and again, and an acquisition that is possible again and
\* again happens.  Nothing forces a crash or the cleanup.
LockFairness ==
  \A p \in Procs :
    /\ WF_vars(LockTryFile(p))
    /\ WF_vars(LockTryNamed(p))
    /\ WF_vars(LockReleaseNamed(p))
    /\ WF_vars(LockReleaseFile(p))
    /\ SF_vars(LockWaitFirst(p))
    /\ WF_vars(LockWaitOther(p))
    /\ SF_vars(LockWaitOther(p) /\ lockPc'[p] = "held")

SpecLockFair == InitLock /\ [][NextLock]_vars /\ LockFairness

(***************************************************************************)
(* The C-RORC channel with the pages it names: the page address pushed     *)
(* with each descriptor and the pages whose SDH the engine patched since   *)
(* the last start_dma.                                                     *)
(***************************************************************************)
aside == << cardSide, lockSide, registerSide >>

InitPages ==
  /\ EngineInit
  /\ variant = "Crorc"
  /\ CardSideIdle
  /\ LockSideIdle
  /\ RegisterSideIdle
  /\ PageSideIdle

PagesStartDma ==
  /\ EngineStartDma
  /\ sdhWrites' = << >>
  /\ UNCHANGED << ringTarget, aside >>

PagesPushSuperpage ==
  /\ \E sp \in ClientSuperpages : EnginePush(sp)
  /\ UNCHANGED << pageSide, aside >>

PagesPopSuperpage ==
  /\ EnginePopSuperpage
  /\ UNCHANGED << pageSide, aside >>

PagesFill(lastStatus, emptyFront, assertsEnabled) ==
  /\ EngineFill(lastStatus, emptyFront, assertsEnabled)
  /\ LET st == fillSuperpages(Engine, mPageSize, lastStatus, emptyFront)
     IN IF assertsEnabled
        THEN UNCHANGED pageSide
        ELSE /\ ringTarget' = st.target
             /\ sdhWrites' = st.sdh
  /\ UNCHANGED aside

PagesFillSuperpages ==
  \E lastStatus \in primingStatuses(Engine),
     emptyFront \in emptyFrontChoices(Engine, mPageSize),
     assertsEnabled \in (IF primingOverruns(Engine) THEN BOOLEAN ELSE {FALSE}) :
    PagesFill(lastStatus, emptyFront, assertsEnabled)

NextPages ==
  \/ PagesStartDma
  \/ PagesPushSuperpage
  \/ PagesPopSuperpage
  \/ PagesFillSuperpages
  \/ CardWritesStatus

SpecPages == InitPages /\ [][NextPages]_vars

(***************************************************************************)
(* getFirmwareInfo decodes the RFID register.  The register is kept bit by *)
(* bit: a 32-bit word with bit 31 set has no place in a signed integer.    *)
(***************************************************************************)
RECURSIVE getBits(_, _, _)
getBits(word, lsb, msb) ==
  IF msb < lsb THEN 0 ELSE word[lsb] + 2 * getBits(word, lsb + 1, msb)

\* getFirmwareInfo reading the minor number one bit too low.
getFirmwareInfoMinorShifted(version) ==
  LET reserved == getBits(version, 24, 31)
      major == getBits(version, 20, 23)
      minor == getBits(version, 12, 19)
      year == getBits(version, 9, 12) + 2000
      month == getBits(version, 5, 8)
      day == getBits(version, 0, 4)
  IN IF reserved # 2
     THEN [err |-> "CrorcException", info |-> ""]
     ELSE [err |-> "none",
           info |-> ToString(major) \o "." \o ToString(minor) \o ":" \o ToString(year)
                    \o "-" \o ToString(month) \o "-" \o ToString(day)]

getFirmwareInfo(version) ==
  LET reserved == getBits(version, 24, 31)
      major == getBits(version, 20, 23)
      minor == getBits(version, 13, 19)
      year == getBits(version, 9, 12) + 2000
      month == getBits(version, 5, 8)
      day == getBits(version, 0, 4)
  IN IF reserved # 2
     THEN [err |-> "CrorcException", info |-> ""]
     ELSE [err |-> "none",
           info |-> ToString(major) \o "." \o ToString(minor) \o ":" \o ToString(year)
                    \o "-" \o ToString(month) \o "-" \o ToString(day)]

\* The registers the card may hold: every bit set or clear in each field.
bitOf(n, k) == (n \div (2 ^ k)) % 2
RfidWord(reserved, major, minor, year, month, day) ==
  [i \in Bits |->
     IF i >= 24 THEN bitOf(reserved, i - 24)
     ELSE IF i >= 20 THEN bitOf(major, i - 20)
     ELSE IF i >= 13 THEN bitOf(minor, i - 13)
     ELSE IF i >= 9 THEN bitOf(year, i - 9)
     ELSE IF i >= 5 THEN bitOf(month, i - 5)
     ELSE bitOf(day, i)]
RfidValues ==
  { RfidWord(reserved, major, minor, year, month, day) :
      reserved \in {0, 2, 3, 130, 255}, major \in {0, 3, 15}, minor \in {1, 20, 127},
      year \in {2, 15}, month \in {3, 12}, day \in {5, 16, 31} }

InitFirmware ==
  /\ EngineInit
  /\ variant = "Crorc"
  /\ mPageSize = DefaultPageSize
  /\ CardSideIdle
  /\ LockSideIdle
  /\ PageSideIdle
  /\ rfid \in RfidValues
  /\ firmwareInfo = NotCalled

GetFirmwareInfo ==
  /\ firmwareInfo' = getFirmwareInfo(rfid)
  /\ UNCHANGED << rfid, config, crorcEngine, dummyEngine, cardActive, chan, ret,
                  pushedHist, poppedHist, pageCounters, pushCount, startCount, script,
                  cardSide, lockSide, pageSide >>

NextFirmware == GetFirmwareInfo

SpecFirmware == InitFirmware /\ [][NextFirmware]_vars

(***************************************************************************)
(* Properties of the channels.                                             *)
(***************************************************************************)
IsPrefix(s, t) == Len(s) <= Len(t) /\ SubSeq(t, 1, Len(s)) = s
SuperpagesOf(entries) == { entries[i].superpage : i \in 1 .. Len(entries) }
Elements(queue) == { queue[i] : i \in 1 .. Len(queue) }
HeldSuperpages ==
  IF variant = "Crorc"
  THEN SuperpagesOf(mSuperpageQueue.pushing) \cup SuperpagesOf(mSuperpageQueue.arrivals)
         \cup SuperpagesOf(mSuperpageQueue.filled)
  ELSE Elements(mTransferQueue) \cup Elements(mReadyQueue)
ReadySuperpages ==
  IF variant = "Crorc"
  THEN [i \in 1 .. Len(mSuperpageQueue.filled) |-> mSuperpageQueue.filled[i].superpage]
  ELSE mReadyQueue
Available ==
  IF variant = "Crorc" THEN getQueueAvailable(mSuperpageQueue)
  ELSE TRANSFER_QUEUE_SIZE - Len(mTransferQueue)
Granule == IF variant = "Crorc" THEN MIN_SIZE ELSE DUMMY_GRANULE
Acceptable(sp) ==
  /\ sp.size > 0
  /\ sp.size % Granule = 0
  /\ sp.offset % 4 = 0
  /\ sp.offset + sp.size <= BufferSize
PushStep(sp) == CrorcPush(sp) \/ DummyPush(sp)
PopStep == CrorcPopSuperpage \/ DummyPopSuperpage
channelState == << crorcEngine, dummyEngine, pageCounters, pushedHist, poppedHist,
                   cardActive, chan >>

\* C1 (order preservation): on either channel the superpages popped since the
\* last start_dma are, by offset and in order, a prefix of the superpages
\* accepted since then.
C1_OrderPreservation == IsPrefix(poppedHist, pushedHist)
C1_Witness ==
  /\ variant = "Crorc"
  /\ Len(poppedHist) >= 2
  /\ poppedHist[1] # poppedHist[2]

\* The cold-start scenario on the C-RORC at the default page size: the client
\* calls made so far are `calls`, and the last of them succeeded.
ColdStart(calls) ==
  /\ variant = "Crorc"
  /\ mPageSize = DefaultPageSize
  /\ script = calls
  /\ ret.err = "none"
Superpage0Filled == [Superpage0 EXCEPT !.received = MIN_SIZE, !.ready = TRUE]
ColdStartOutcome(before) ==
  /\ ColdStart(before \o << "fill" >>) =>
       /\ pagesPushed = READYFIFO_ENTRIES
       /\ mSuperpageQueue.pushing = << >>
       /\ mSuperpageQueue.arrivals = << >>
       /\ Len(mSuperpageQueue.filled) = 1
       /\ mSuperpageQueue.filled[1].superpage = Superpage0Filled
  /\ ColdStart(before \o << "fill", "pop" >>) => ret = RetSp("pop", Superpage0Filled)

\* C2 (cold start, as the code does it): after start_dma, then one push of
\* {offset 0, size 1 MiB}, then fill_superpages, the engine has primed
\* READYFIFO_ENTRIES descriptors from that superpage, the entry is in Filled
\* with received = 1 MiB and ready set, and pop_superpage returns it.
C2_ColdStartAfterStart == ColdStartOutcome(<< "start", "push0" >>)
C2_Witness == ColdStart(<< "start", "push0", "fill", "pop" >>) /\ ret.op = "pop"
\* C2 as stated: the same outcome with the push made before start_dma.
C2_ColdStartPushFirst == ColdStartOutcome(<< "push0", "start" >>)

\* The ring as the card leaves it once every outstanding descriptor has
\* completed, and the tick that follows.
AllArrived ==
  [i \in Slots |->
     IF ((i + READYFIFO_ENTRIES) - mFifoBack) % READYFIFO_ENTRIES < mFifoSize
     THEN StatusWhole ELSE readyFifo[i]]
TickAfterArrival ==
  fillSuperpages([Engine EXCEPT !.fifo = AllArrived], mPageSize, StatusWhole, "throw")

\* C3 (progress): on a started C-RORC channel at the default page size that
\* holds a superpage not yet in Filled, a tick made after the card has
\* completed every outstanding descriptor changes the queue or the ring; the
\* engine is never stuck with superpages it cannot advance.
C3_Progress ==
  ( /\ variant = "Crorc"
    /\ chan = "ok"
    /\ startCount > 0
    /\ mPageSize = DefaultPageSize
    /\ mSuperpageQueue.pushing \o mSuperpageQueue.arrivals # << >> )
  => ( \/ TickAfterArrival.q # mSuperpageQueue
       \/ TickAfterArrival.size # mFifoSize
       \/ TickAfterArrival.back # mFifoBack )

\* C4 (conservation): on the C-RORC the descriptors outstanding plus the pages
\* received equal the pages pushed, all counted since the last start_dma.
C4_Conservation ==
  variant = "Crorc" => mFifoSize + pagesReceived = pagesPushed
C4_Witness ==
  /\ variant = "Crorc"
  /\ mFifoSize > 0
  /\ pagesReceived > READYFIFO_ENTRIES

\* C5 (bounded ring): after every operation 0 <= mFifoSize <= FIFO_QUEUE_MAX
\* <= READYFIFO_ENTRIES and 0 <= mFifoBack < READYFIFO_ENTRIES.
C5_BoundedRing ==
  variant = "Crorc" =>
    /\ 0 <= mFifoSize
    /\ mFifoSize <= FIFO_QUEUE_MAX
    /\ FIFO_QUEUE_MAX <= READYFIFO_ENTRIES
    /\ 0 <= mFifoBack
    /\ mFifoBack < READYFIFO_ENTRIES
C5_Witness ==
  /\ variant = "Crorc"
  /\ mFifoSize = FIFO_QUEUE_MAX
  /\ mFifoBack > 0
  /\ startCount > 0

\* C6 (completion flag): every superpage a channel holds, and every superpage
\* pop_superpage returns, has ready set exactly when received equals size.
C6_CompletionFlag ==
  /\ \A sp \in HeldSuperpages : sp.ready <=> (sp.received = sp.size)
  /\ (ret.op = "pop" /\ ret.err = "none") => (ret.sp.ready <=> (ret.sp.received = ret.sp.size))

\* C7 (received counter): on the C-RORC, whatever the page size, the received
\* counter of every superpage held is a multiple of the page size and never
\* exceeds the size of the superpage.
C7_ReceivedCounter ==
  variant = "Crorc" =>
    \A sp \in HeldSuperpages :
      /\ sp.received % mPageSize = 0
      /\ sp.received <= sp.size

\* C8 (back-pressure, as the code does it): a push fails with queue-full only
\* when get_transfer_queue_available() is 0; when it is 0 no push is accepted,
\* and the push fails with queue-full on the Dummy whatever the superpage and
\* on the C-RORC whenever the superpage passes the validation of its fields.
C8_BackPressure ==
  [][\A sp \in ClientSuperpages :
       PushStep(sp) =>
         /\ (ret'.err = "QueueFull" => Available = 0)
         /\ (Available = 0 => ret'.err # "none")
         /\ (Available = 0 /\ (variant = "Dummy" \/ Acceptable(sp))
               => ret'.err = "QueueFull")]_vars
C8_Witness ==
  /\ variant = "Crorc"
  /\ Available = 0
  /\ ret.op = "push"
  /\ ret.err = "QueueFull"
\* C8 as stated: a push fails with queue-full exactly when
\* get_transfer_queue_available() is 0, whatever the superpage.
C8_BackPressureRegardless ==
  [][\A sp \in ClientSuperpages :
       PushStep(sp) => ((ret'.err = "QueueFull") <=> (Available = 0))]_vars

Peeked ==
  IF variant = "Crorc" THEN getFrontSuperpage(mSuperpageQueue).sp
  ELSE dummyGetSuperpage(mReadyQueue, NoSuperpage)

\* C10 (pop): pop_superpage on a non-empty Filled returns its head, which is
\* what get_superpage returned before it, removes it, lowers the ready queue
\* size by one and changes nothing else; on an empty Filled it fails with
\* queue-empty and changes nothing.
C10_Pop ==
  [][PopStep =>
       IF ReadySuperpages = << >>
       THEN ret'.err = "QueueEmpty" /\ UNCHANGED channelState
       ELSE /\ ret' = RetSp("pop", Head(ReadySuperpages))
            /\ ret'.sp = Peeked
            /\ ReadySuperpages' = Tail(ReadySuperpages)
            /\ Len(ReadySuperpages') = Len(ReadySuperpages) - 1
            /\ UNCHANGED << mSuperpageQueue.pushing, mSuperpageQueue.arrivals,
                            mFifoBack, mFifoSize, mPendingDmaStart, readyFifo,
                            mTransferQueue, pageCounters, pushedHist, cardActive,
                            chan >>]_vars
C10_Witness ==
  /\ variant = "Dummy"
  /\ ret.op = "pop"
  /\ ret.err = "none"
  /\ mReadyQueue # << >>
  /\ Len(poppedHist) = 1

\* C11 (queue capacity): in every reachable state the transfer side holds at
\* most TRANSFER_QUEUE_SIZE superpages, Filled holds at most READY_QUEUE_SIZE,
\* and get_transfer_queue_available() is TRANSFER_QUEUE_SIZE minus the
\* superpages on the transfer side and is never negative.
TransferSide ==
  IF variant = "Crorc"
  THEN Len(mSuperpageQueue.pushing) + Len(mSuperpageQueue.arrivals)
  ELSE Len(mTransferQueue)
HarvestedBy(received) == received - pagesReceived
C12_HardwareError ==
  [][(CrorcFillSuperpages /\ ~ mPendingDmaStart) =>
       LET stopped == readyFifo'[mFifoBack']
           bad == (stopped % 256 = DTSW /\ stopped < 0)
                    \/ (stopped # 0 - 1 /\ stopped # 0 /\ stopped % 256 # DTSW)
       IN /\ (ret'.err = "DataArrival") =>
               /\ bad
               /\ mFifoSize' > 0
               /\ stopped = readyFifo[mFifoBack']
               /\ mFifoSize' + pagesReceived' = pagesPushed'
               /\ chan' = "failed"
               /\ (mSuperpageQueue'.arrivals # << >> =>
                     LET head == Head(mSuperpageQueue'.arrivals).superpage
                     IN head.received # head.size)
          /\ (mFifoSize' > 0 /\ mSuperpageQueue'.arrivals # << >> /\ bad) =>
               ret'.err = "DataArrival"
          /\ \A k \in 0 .. (HarvestedBy(pagesReceived') - 1) :
               LET word == readyFifo[(mFifoBack + k) % READYFIFO_ENTRIES]
               IN word % 256 = DTSW /\ word >= 0]_vars
C12_Witness ==
  /\ variant = "Crorc"
  /\ ret.err = "DataArrival"
  /\ ~ mPendingDmaStart
  /\ readyFifo[mFifoBack] = StatusErrorBit
  /\ pagesReceived > READYFIFO_ENTRIES


(***************************************************************************)
(* Stop and reset.                                                         *)
(***************************************************************************)
OpsOf(ops) == { ops[i] : i \in DOMAIN ops }
CardCalls(ops) == OpsOf(ops) \ {"sleep"}

C14_StopAlwaysCompletes ==
  lastCall.op = "stop" =>
    /\ ret.err = "none"
    /\ cardOps = deviceStopDma(mGeneratorEnabled, mLoopbackMode)

\* C15: reset_channel(Nothing) is a no-op in every engine state and for every
\* loopback mode: no call to the card, no settle delay, and the queues,
\* fifo_back, fifo_size and pending_dma_start are unchanged.
C15_ResetNothing ==
  [][(\E fail \in FailChoices(deviceResetChannel("Nothing", mLoopbackMode)) :
        OpsReset("Nothing", fail))
     => /\ cardOps' = << >>
        /\ ret'.err = "none"
        /\ UNCHANGED << mSuperpageQueue, mFifoBack, mFifoSize, mPendingDmaStart,
                        readyFifo, pagesPushed, pagesReceived >>]_vars

C15_Witness ==
  /\ lastCall.op = "reset"
  /\ lastCall.arg = "Nothing"
  /\ cardOps = << >>
  /\ mLoopbackMode = "Siu"
  /\ mFifoSize > 0
  /\ ~ mPendingDmaStart

\* C16: for every loopback mode, the calls issued by
\* reset_channel(InternalDiuSiu) contain every call issued by
\* reset_channel(Internal) for the same loopback mode, the FF and RORC reset
\* commands among them.
C16_ResetMonotonicity ==
  (lastCall.op = "reset" /\ lastCall.arg = "InternalDiuSiu" /\ ret.err = "none") =>
    /\ CardCalls(deviceResetChannel("Internal", mLoopbackMode)) \subseteq CardCalls(cardOps)
    /\ {"resetCommand(FF)", "resetCommand(RORC)"} \subseteq CardCalls(cardOps)

(***************************************************************************)
(* Deferred start.                                                         *)
(***************************************************************************)
\* C17: start_dma, from any engine state, empties Pushing, Arrivals and
\* Filled, sets fifo_back = 0, fifo_size = 0 and pending_dma_start = true and
\* issues no call to the card; while the start is pending, push_superpage,
\* pop_superpage and the ticks that find Pushing empty issue no call to the
\* card either: the calls begin on the first tick that finds Pushing non-empty.
C17_DeferredStart ==
  [][/\ OpsStartDma =>
          /\ mSuperpageQueue' = EmptyQueue
          /\ mFifoBack' = 0
          /\ mFifoSize' = 0
          /\ mPendingDmaStart'
          /\ cardOps' = << >>
     /\ (/\ mPendingDmaStart
         /\ \/ OpsPushSuperpage
            \/ OpsPopSuperpage
            \/ (OpsFillSuperpages /\ mSuperpageQueue.pushing = << >>))
        => /\ cardOps' = << >>
           /\ mPendingDmaStart'
     /\ (mPendingDmaStart /\ OpsFillSuperpages /\ mSuperpageQueue.pushing # << >>)
        => /\ "startDataReceiver" \in CardCalls(cardOps')
           /\ "pushRxFreeFifo" \in CardCalls(cardOps')]_vars

\* A second start_dma after traffic, then a tick that finds Pushing empty.
C17_Witness ==
  /\ mPendingDmaStart
  /\ startCount = 2
  /\ cardActive
  /\ lastCall.op = "fill"
  /\ cardOps = << >>
  /\ mSuperpageQueue = EmptyQueue

(***************************************************************************)
(* The channel lock.                                                       *)
(***************************************************************************)
Constructed == { p \in Procs : lockPc[p] = "held" }

\* C18: at most one live process at a time has a successfully constructed
\* Lock, and a successfully constructed Lock holds both the file lock and the
\* named mutex.
C18_MutualExclusion ==
  /\ Cardinality(Constructed) <= 1
  /\ \A p \in Constructed : fileMutex = p /\ namedMutex = p /\ lockResult[p] = "ok"
  /\ \A p \in Procs : lockResult[p] = "ok" => lockPc[p] \in {"held", "releasing"}

\* A process holds the Lock it constructed while another waits for it.
C18_Witness ==
  \E p, q \in Procs :
    /\ lockPc[p] = "held"
    /\ lockPc[q] = "waiting"
    /\ lockResult[q] = "none"

\* C19: when the construction in try mode fails, the caller holds neither the
\* file lock nor the named mutex afterwards.
C19_AllOrNothing ==
  \A p \in Procs :
    lockResult[p] \in {"FileLockException", "NamedMutexLockException"} =>
      /\ fileMutex # p
      /\ namedMutex # p

\* One process failed on the named mutex, and another constructed the Lock
\* after the cleanup.
C19_Witness ==
  \E p, q \in Procs :
    /\ lockResult[p] = "NamedMutexLockException"
    /\ lockPc[p] = "idle"
    /\ lockPc[q] = "held"

\* C20: in try mode the construction fails with FileLockException exactly
\* when another live process holds the channel's file lock, and with
\* NamedMutexLockException exactly when the file lock is free and the named
\* mutex is still locked by a terminated holder; while the named mutex is
\* stale, every construction in try mode fails with NamedMutexLockException.
C20_FailureClassification ==
  [][\A p \in Procs :
       /\ (LockTryFile(p) /\ lockResult'[p] = "FileLockException")
          => \E q \in Procs \ {p} : fileMutex = q
       /\ (LockTryNamed(p) /\ lockResult'[p] = "NamedMutexLockException")
          => namedMutex = Stale
       /\ (namedMutex = Stale /\ (LockTryFile(p) \/ LockTryNamed(p)) /\ lockResult'[p] # "none")
          => lockResult'[p] = "NamedMutexLockException"]_vars

Waiters == { p \in Procs : lockPc[p] \in {"waiting", "waitHasFile", "waitHasNamed"} }

RfidTop == getBits(rfid, 24, 31)
RfidLow == getBits(rfid, 0, 23)
Rendered(major, minor, year, month, day) ==
  ToString(major) \o "." \o ToString(minor) \o ":" \o ToString(year)
  \o "-" \o ToString(month) \o "-" \o ToString(day)
\* The register of scenario S5: 0x02, major 3, minor 0x14, year field 2,
\* month 3, day 5.
S5Rfid == RfidWord(2, 3, 20, 2, 3, 5)

\* C22: for every RFID value getFirmwareInfo fails when bits 24..31 are not
\* 0x2 and otherwise returns "major.minor:year-month-day" with major = bits
\* 20..23, minor = bits 13..19, year = bits 9..12 + 2000, month = bits 5..8
\* and day = bits 0..4; the register of scenario S5 renders as 3.20:2002-3-5.
C22_FirmwareDecoding ==
  firmwareInfo # NotCalled =>
    /\ RfidTop # 2 => firmwareInfo.err # "none"
    /\ RfidTop = 2 =>
         /\ firmwareInfo.err = "none"
         /\ firmwareInfo.info =
              Rendered((RfidLow \div (2 ^ 20)) % 16, (RfidLow \div (2 ^ 13)) % 128,
                       ((RfidLow \div (2 ^ 9)) % 16) + 2000, (RfidLow \div (2 ^ 5)) % 16,
                       RfidLow % 32)
    /\ rfid = S5Rfid => firmwareInfo.info = "3.20:2002-3-5"
    /\ firmwareInfo.info # "3.20:2020-3-5"

C22_Witness ==
  /\ firmwareInfo.err = "none"
  /\ firmwareInfo # NotCalled
  /\ rfid = S5Rfid

\* C22 as stated: the register of scenario S5 renders as 3.20:2020-3-5.
C22_S5AsStated ==
  (firmwareInfo # NotCalled /\ rfid = S5Rfid) => firmwareInfo.info = "3.20:2020-3-5"

(***************************************************************************)
(* Pages and descriptors.                                                  *)
(***************************************************************************)
\* C23 (oldest first): whenever descriptors are outstanding, Arrivals is not
\* empty and the descriptor in slot fifo_back targets the page at offset
\* F.offset + F.received of the front entry F of Arrivals.
C23_OldestFirst ==
  (startCount > 0 /\ chan = "ok" /\ mFifoSize > 0) =>
    /\ mSuperpageQueue.arrivals # << >>
    /\ LET F == Head(mSuperpageQueue.arrivals).superpage
       IN ringTarget[mFifoBack] = F.offset + F.received

\* C24 (in-order arrival observation): the arrival phase of a tick consumes
\* slots fifo_back, fifo_back + 1, ... in ring order and no other slot; every
\* slot it consumes held a whole-arrival DTSW word without the error bit and
\* is reset to -1; fifo_size drops by one and fifo_back advances by one
\* modulo READYFIFO_ENTRIES per consumed slot; a phase that ends without an
\* error and with descriptors outstanding has stopped at a slot holding -1
\* or 0.
ConsumedSlots(k) == { (mFifoBack + i) % READYFIFO_ENTRIES : i \in 0 .. (k - 1) }
PrimedEntry(q) ==
  IF Len(q.pushing) = Len(mSuperpageQueue.pushing) THEN q.pushing[1]
  ELSE IF Len(q.filled) > Len(mSuperpageQueue.filled) THEN q.filled[Len(q.filled)]
  ELSE q.arrivals[Len(q.arrivals)]
DeferredStartDone ==
  LET before == mSuperpageQueue.pushing[1]
      after == PrimedEntry(mSuperpageQueue')
  IN /\ pagesPushed' = pagesPushed + READYFIFO_ENTRIES
     /\ after.pushedPages = before.pushedPages + READYFIFO_ENTRIES
     /\ after.superpage.received = before.superpage.received + READYFIFO_ENTRIES * mPageSize
     /\ isPushed(after) =>
          (mSuperpageQueue'.pushing = Tail(mSuperpageQueue.pushing))
     /\ ~ isPushed(after) =>
          (mSuperpageQueue'.pushing = << after >> \o Tail(mSuperpageQueue.pushing))
     /\ (isPushed(after) /\ isFilled(after.superpage)) =>
          /\ mSuperpageQueue'.filled = Append(mSuperpageQueue.filled, after)
          /\ after.superpage.ready
     /\ mFifoBack' = 0
     /\ mFifoSize' = 0
     /\ ~ mPendingDmaStart'
C25_DeferredStart ==
  [][(PagesFillSuperpages /\ mPendingDmaStart /\ mSuperpageQueue.pushing # << >>) =>
       DeferredStartDone]_vars
\* The transition as C25 describes it, on the ticks that end without an error.
DeferredStartWhenNoError ==
  [][(PagesFillSuperpages /\ mPendingDmaStart /\ mSuperpageQueue.pushing # << >>
        /\ ret'.err = "none") =>
       DeferredStartDone]_vars

\* C26 (region membership): between the calls of a channel that has not
\* failed every entry in Filled is fully received and ready, every entry in
\* Arrivals is fully pushed and not fully received, and every entry in
\* Pushing has pages left to push.
RegionMembership(q) ==
  /\ \A i \in DOMAIN q.filled :
       q.filled[i].superpage.received = q.filled[i].superpage.size
         /\ q.filled[i].superpage.ready
  /\ \A i \in DOMAIN q.arrivals :
       q.arrivals[i].pushedPages = q.arrivals[i].maxPages
         /\ q.arrivals[i].superpage.received < q.arrivals[i].superpage.size
  /\ \A i \in DOMAIN q.pushing :
       q.pushing[i].pushedPages < q.pushing[i].maxPages
C26_RegionMembership ==
  chan = "ok" => RegionMembership(mSuperpageQueue)

\* C27 (SDH patch): every page credited to an entry since the last start_dma,
\* the pages credited by the deferred start included, has had its SDH patched
\* once, at the page the credit was for.
QueueEntries(q) ==
  { q.pushing[i] : i \in DOMAIN q.pushing }
    \cup { q.arrivals[i] : i \in DOMAIN q.arrivals }
    \cup { q.filled[i] : i \in DOMAIN q.filled }
CreditedPages(entry) ==
  { entry.superpage.offset + k * mPageSize :
      k \in 0 .. ((entry.superpage.received \div mPageSize) - 1) }
Patched == { sdhWrites[i] : i \in DOMAIN sdhWrites }
C27_SdhPatch ==
  chan = "ok" =>
    /\ \A entry \in QueueEntries(mSuperpageQueue) : CreditedPages(entry) \subseteq Patched
    /\ Len(sdhWrites) = pagesReceived

\* C28: no tick reads the front entry of Arrivals while Arrivals is empty: at
\* every iteration of the arrival loop Arrivals holds an entry.
ReadsEmptyArrivals ==
  fillSuperpages(Engine, mPageSize, StatusWhole, "throw").err = "ArrivalsEmpty"
C28_ArrivalsFrontExists ==
  [][PagesFillSuperpages => ~ ReadsEmptyArrivals]_vars

\* C29: the assertions of pushIntoSuperpage never fail: no tick is aborted by
\* them, and where they are compiled out no entry has more pages pushed than
\* it has and the ring never holds more than FIFO_QUEUE_MAX descriptors.
C29_PushAssertions ==
  /\ chan # "aborted"
  /\ mFifoSize <= FIFO_QUEUE_MAX
  /\ \A entry \in QueueEntries(mSuperpageQueue) : entry.pushedPages <= entry.maxPages

(***************************************************************************)
(* The card calls of the deferred start.                                   *)
(***************************************************************************)
\* C30 (deferred-start command ordering): the calls of a deferred-start tick
\* begin with the DIU version init, followed by the reset at the initial
\* reset level, then the start of the data receiver, then exactly
\* READYFIFO_ENTRIES descriptor pushes, and only then the calls that make
\* the card produce data (data generator or trigger): no descriptor is
\* pushed before the receiver is started, no producer is started before the
\* last descriptor push.
CallsAt(op) == { i \in DOMAIN cardOps : cardOps[i] = op }
Producers ==
  CallsAt("startTrigger") \cup CallsAt("armDataGenerator") \cup CallsAt("startDataGenerator")
DeferredStartTick == lastCall.op = "fill" /\ CallsAt("startDataReceiver") # {}
====
